---- MODULE Spec2Model ----
(***************************************************************************)
(* examples/python-agent/agent.py: the request/response adapter run_agent. *)
(* One process reads a JSON request from standard input, drives one        *)
(* external query to completion, and prints one JSON response.             *)
(*                                                                         *)
(* Optional Python values (None or a value, an unbound or bound local) are *)
(* sequences of length at most one: <<>> is None/unbound, <<v>> is v.      *)
(***************************************************************************)
EXTENDS Integers, Sequences, FiniteSets, TLC

\* Longest prefix of the external message stream that is explored.
MaxMsgs == 3

VARIABLES
    stdin,      \* the document on standard input
    pc,         \* position of the process in run_agent
    prompt,     \* local `prompt`  (<<>> while unbound)
    cwd,        \* local `cwd`     (<<>> while unbound)
    options,    \* local `options` (<<>> while unbound)
    output,     \* local `output`
    success,    \* local `success`
    result,     \* local `result`  (<<>> while unbound)
    stdout,     \* lines printed on standard output
    exitCode,   \* process exit status (<<>> while running)
    uncaught,   \* class of the exception that left run_agent (<<>> if none)
    seen,       \* messages the stream has yielded so far, in order
    ext,        \* the external call: "idle", "open", "completed", "raised"
    exc,        \* exception raised inside the try block (<<>> if none)
    queryCalls  \* number of times query(...) was called

vars == <<stdin, pc, prompt, cwd, options, output, success, result, stdout,
          exitCode, uncaught, seen, ext, exc, queryCalls>>

-----------------------------------------------------------------------------
(* Standard input: JSON documents, by structure.  "bad" is text that is    *)
(* not JSON at all (empty input, a truncated object).                      *)

DBad == [t |-> "bad"]
DNull == [t |-> "null"]
DList == [t |-> "list"]
DStr(s) == [t |-> "str", s |-> s]
DObj(f) == [t |-> "obj", f |-> f]

EmptyMap == [k \in {} |-> DNull]
One(k, v) == [x \in {k} |-> v]
Two(k1, v1, k2, v2) == [x \in {k1, k2} |-> IF x = k1 THEN v1 ELSE v2]

ContextDocs ==
    { DNull, DStr("ctx"), DList, DObj(EmptyMap),
      DObj(One("workingDirectory", DStr("/w"))),
      DObj(One("workingDirectory", DNull)) }

StdinDocs ==
    { DBad, DNull, DList, DStr("hello"), DObj(EmptyMap),
      DObj(One("prompt", DStr("p"))) }
    \cup { DObj(One("context", c)) : c \in ContextDocs }
    \cup { DObj(Two("prompt", DStr("p"), "context", c)) : c \in ContextDocs }

\* json.loads: the Python value of a document, or the exception it raises.
RECURSIVE PyValue(_)
PyValue(d) ==
    CASE d.t = "null" -> [py |-> "NoneType"]
      [] d.t = "list" -> [py |-> "list"]
      [] d.t = "str"  -> [py |-> "str", s |-> d.s]
      [] d.t = "obj"  -> [py |-> "dict",
                          items |-> [k \in DOMAIN d.f |-> PyValue(d.f[k])]]

JsonLoads(d) ==
    IF d.t = "bad" THEN [raised |-> "JSONDecodeError"]
    ELSE [raised |-> "", val |-> PyValue(d)]

GetItemOrNone(v, k) ==
    IF v.py # "dict" THEN [raised |-> "TypeError"]
    ELSE IF k \notin DOMAIN v.items THEN [raised |-> "", val |-> [py |-> "NoneType"]]
    ELSE [raised |-> "", val |-> v.items[k]]

\* v[k] for a string key k.
GetItem(v, k) ==
    IF v.py # "dict" THEN [raised |-> "TypeError"]
    ELSE IF k \notin DOMAIN v.items THEN [raised |-> "KeyError"]
    ELSE [raised |-> "", val |-> v.items[k]]

\* Lines 9-11: the request, its prompt and its working directory.
ParseOutcome(d) ==
    LET request == JsonLoads(d) IN
    IF request.raised # "" THEN request
    ELSE LET p == GetItem(request.val, "prompt") IN
         IF p.raised # "" THEN p
         ELSE LET c == GetItem(request.val, "context") IN
              IF c.raised # "" THEN c
              ELSE LET w == GetItem(c.val, "workingDirectory") IN
                   IF w.raised # "" THEN w
                   ELSE [raised |-> "", prompt |-> p.val, cwd |-> w.val]

-----------------------------------------------------------------------------
(* The external SDK: messages and exceptions.                              *)

AllowedTools == <<"Read", "Write", "Edit", "Glob", "Grep", "Bash">>

ResultTexts == { <<>>, <<"">>, <<"done">> }
Subtypes == { "success", "error_max_turns" }

ResultMessages ==
    { [type |-> "ResultMessage", result |-> r, subtype |-> s] :
        r \in ResultTexts, s \in Subtypes }

OtherMessages ==
    { [type |-> "AssistantMessage", result |-> <<>>, subtype |-> ""],
      [type |-> "SystemMessage", result |-> <<>>, subtype |-> "init"] }

Messages == ResultMessages \cup OtherMessages

\* Classes derived from Exception, and classes derived from BaseException only.
ExceptionClasses == { "RuntimeError" }
BaseOnlyClasses == { "CancelledError" }

Exceptions ==
    { [cls |-> c, args |-> a] :
        c \in ExceptionClasses \cup BaseOnlyClasses,
        a \in { <<>>, <<"connection lost">> } }

\* What a synchronous call (the options constructor, the call of query) can
\* raise.  A cancellation is delivered to a coroutine only where it awaits,
\* that is while it pulls the next message from the stream.
SyncExceptions == { e \in Exceptions : e.cls \in ExceptionClasses }

IsResultMessageHasSubtype(msg) == msg.subtype # ""

\* isinstance(msg, ResultMessage)
IsResultMessage(msg) == msg.type = "ResultMessage"

CaughtByExceptConnectionError(e) == e.cls = "ConnectionError"

\* `except Exception` matches e
CaughtByExcept(e) == e.cls \in ExceptionClasses

\* str(e) for an exception with at most one (string) argument
Str(e) == IF Len(e.args) = 0 THEN "" ELSE e.args[1]

ResultStr(r) == IF r = <<>> THEN "None" ELSE r[1]

\* msg.result or ""
ResultOrEmpty(r) == IF r = <<>> \/ r = <<"">> THEN "" ELSE r[1]

SubtypeIsNotError(s) == s # "error"

\* msg.subtype == "success"
SubtypeIsSuccess(s) == s = "success"

-----------------------------------------------------------------------------
(* The response dictionaries and their serialisation.                      *)

NormalResultWithError == [output |-> output, success |-> success, error |-> ""]

\* Line 27.
NormalResult == [output |-> output, success |-> success]

ExceptResultMerged(e) == [output |-> output, success |-> FALSE, error |-> Str(e)]

\* Line 29.
ExceptResult(e) == [output |-> "", success |-> FALSE, error |-> Str(e)]

Quote(s) == "\"" \o s \o "\""

\* json.dumps of a response dictionary (keys in insertion order).
JsonDumps(d) ==
    "{" \o Quote("output") \o ": " \o Quote(d.output)
        \o ", " \o Quote("success") \o ": "
        \o (IF d.success THEN "true" ELSE "false")
        \o (IF "error" \in DOMAIN d
            THEN ", " \o Quote("error") \o ": " \o Quote(d.error)
            ELSE "")
        \o "}"

-----------------------------------------------------------------------------

Init ==
    /\ stdin \in StdinDocs
    /\ pc = "not_started"
    /\ prompt = <<>>
    /\ cwd = <<>>
    /\ options = <<>>
    /\ output = ""
    /\ success = FALSE
    /\ result = <<>>
    /\ stdout = <<>>
    /\ exitCode = <<>>
    /\ uncaught = <<>>
    /\ seen = <<>>
    /\ ext = "idle"
    /\ exc = <<>>
    /\ queryCalls = 0

\* An exception leaves run_agent: asyncio.run re-raises it, the interpreter
\* prints a traceback on standard error and exits with status 1.
Propagate(cls) ==
    /\ pc' = "crashed"
    /\ uncaught' = <<cls>>
    /\ exitCode' = <<1>>

\* Lines 9-14.
ParseRequest ==
    /\ pc = "not_started"
    /\ LET o == ParseOutcome(stdin) IN
       IF o.raised # ""
       THEN /\ Propagate(o.raised)
            /\ UNCHANGED <<prompt, cwd, output, success>>
       ELSE /\ pc' = "parsed"
            /\ prompt' = <<o.prompt>>
            /\ cwd' = <<o.cwd>>
            /\ output' = ""
            /\ success' = FALSE
            /\ UNCHANGED <<uncaught, exitCode>>
    /\ UNCHANGED <<stdin, options, result, stdout, seen, ext, exc, queryCalls>>

\* Lines 28-29 when e is raised inside the try block: handled if it is an
\* Exception, propagated otherwise.
Raise(e) ==
    /\ exc' = <<e>>
    /\ ext' = "raised"
    /\ IF CaughtByExcept(e)
       THEN /\ result' = <<ExceptResult(e)>>
            /\ pc' = "collected"
            /\ UNCHANGED <<uncaught, exitCode>>
       ELSE /\ Propagate(e.cls)
            /\ UNCHANGED result

\* Lines 17-20.
ConstructOptions ==
    /\ pc = "parsed"
    /\ options' = <<[cwd |-> cwd[1], allowed_tools |-> AllowedTools]>>
    /\ pc' = "configured"
    /\ UNCHANGED <<stdin, prompt, cwd, output, success, result, stdout,
                   exitCode, uncaught, seen, ext, exc, queryCalls>>

ConstructOptionsRaises ==
    /\ pc = "parsed"
    /\ \E e \in SyncExceptions : Raise(e)
    /\ UNCHANGED <<stdin, prompt, cwd, options, output, success, stdout,
                   seen, queryCalls>>

\* Line 22: the call query(prompt=prompt, options=options).
StartQuery ==
    /\ pc = "configured"
    /\ queryCalls' = queryCalls + 1
    /\ ext' = "open"
    /\ pc' = "awaiting"
    /\ UNCHANGED <<stdin, prompt, cwd, options, output, success, result,
                   stdout, exitCode, uncaught, seen, exc>>

QueryRaisesRetries ==
    /\ pc = "configured"
    /\ queryCalls < 2
    /\ queryCalls' = queryCalls + 1
    /\ UNCHANGED <<stdin, pc, prompt, cwd, options, output, success, result,
                   stdout, exitCode, uncaught, seen, ext, exc>>

QueryRaises ==
    /\ pc = "configured"
    /\ queryCalls' = queryCalls + 1
    /\ \E e \in SyncExceptions : Raise(e)
    /\ UNCHANGED <<stdin, prompt, cwd, options, output, success, stdout,
                   seen>>

\* Lines 23-25: the loop body on msg, as the new values of output, success.
LoopBodySticky(msg) ==
    IF IsResultMessage(msg)
    THEN [output |-> ResultOrEmpty(msg.result),
          success |-> success \/ SubtypeIsSuccess(msg.subtype)]
    ELSE [output |-> output, success |-> success]

LoopBody(msg) ==
    IF IsResultMessage(msg)
    THEN [output |-> ResultOrEmpty(msg.result),
          success |-> SubtypeIsSuccess(msg.subtype)]
    ELSE [output |-> output, success |-> success]

StreamYieldsPrinting ==
    /\ pc = "awaiting"
    /\ Len(seen) < MaxMsgs
    /\ \E msg \in Messages :
         /\ seen' = Append(seen, msg)
         /\ output' = LoopBody(msg).output
         /\ success' = LoopBody(msg).success
         /\ stdout' = IF IsResultMessage(msg)
                      THEN Append(stdout, JsonDumps(LoopBody(msg)))
                      ELSE stdout
    /\ UNCHANGED <<stdin, pc, prompt, cwd, options, result, exitCode,
                   uncaught, ext, exc, queryCalls>>

\* Lines 22-25: the stream yields msg and the loop body runs on it.
StreamYields ==
    /\ pc = "awaiting"
    /\ Len(seen) < MaxMsgs
    /\ \E msg \in Messages :
         /\ seen' = Append(seen, msg)
         /\ output' = LoopBody(msg).output
         /\ success' = LoopBody(msg).success
    /\ UNCHANGED <<stdin, pc, prompt, cwd, options, result, stdout, exitCode,
                   uncaught, ext, exc, queryCalls>>

\* Lines 22 and 27: the stream is exhausted.
StreamCompletes ==
    /\ pc = "awaiting"
    /\ ext' = "completed"
    /\ result' = <<NormalResult>>
    /\ pc' = "collected"
    /\ UNCHANGED <<stdin, prompt, cwd, options, output, success, stdout,
                   exitCode, uncaught, seen, exc, queryCalls>>

\* Line 22: pulling the next message raises.
StreamRaises ==
    /\ pc = "awaiting"
    /\ \E e \in Exceptions : Raise(e)
    /\ UNCHANGED <<stdin, prompt, cwd, options, output, success, stdout,
                   seen, queryCalls>>

\* Line 31.
PrintResult ==
    /\ pc = "collected"
    /\ stdout' = Append(stdout, JsonDumps(result[1]))
    /\ pc' = "printed"
    /\ UNCHANGED <<stdin, prompt, cwd, options, output, success, result,
                   exitCode, uncaught, seen, ext, exc, queryCalls>>

\* Line 35: asyncio.run returns and the interpreter exits.
Exit ==
    /\ pc = "printed"
    /\ pc' = "done"
    /\ exitCode' = <<0>>
    /\ UNCHANGED <<stdin, prompt, cwd, options, output, success, result,
                   stdout, uncaught, seen, ext, exc, queryCalls>>

Next ==
    \/ ParseRequest
    \/ ConstructOptions
    \/ ConstructOptionsRaises
    \/ StartQuery
    \/ QueryRaises
    \/ StreamYields
    \/ StreamCompletes
    \/ StreamRaises
    \/ PrintResult
    \/ Exit

Spec == Init /\ [][Next]_vars

\* The process's own steps and the two synchronous SDK calls (constructing
\* the options, calling query) always finish; when the stream yields, ends or
\* raises is up to the SDK, and it may never do so.
FairSpec ==
    /\ Spec
    /\ WF_vars(ParseRequest)
    /\ WF_vars(ConstructOptions \/ ConstructOptionsRaises)
    /\ WF_vars(StartQuery \/ QueryRaises)
    /\ WF_vars(PrintResult)
    /\ WF_vars(Exit)

-----------------------------------------------------------------------------
(* Vocabulary of the properties, defined on the history of the run.        *)

ResultIdx(s) == { i \in 1..Len(s) : s[i].type = "ResultMessage" }
HasResult(s) == ResultIdx(s) # {}
LastResult(s) == s[CHOOSE i \in ResultIdx(s) : \A j \in ResultIdx(s) : j <= i]
OnlyResults(s) == SelectSeq(s, LAMBDA m : m.type = "ResultMessage")
TextOf(r) == IF r = <<>> THEN "" ELSE r[1]
ErrText(e) == IF e.args = <<>> THEN "" ELSE e.args[1]

Completed == ext = "completed"
ResponseWritten == stdout # <<>>
Terminated == pc \in {"done", "crashed"}
PrintedFromResult == result # <<>> /\ stdout = <<JsonDumps(result[1])>>

\* The external call has ended in a way the handler recovers from.
EndedRecoverably ==
    \/ ext = "completed"
    \/ ext = "raised" /\ exc # <<>> /\ exc[1].cls \in ExceptionClasses

WellFormedRequest(d) ==
    /\ d.t = "obj"
    /\ {"prompt", "context"} \subseteq DOMAIN d.f
    /\ d.f["context"].t = "obj"
    /\ "workingDirectory" \in DOMAIN d.f["context"].f

-----------------------------------------------------------------------------
\* C1: when the stream completes and held at least one result message, the
\* response's output and success both come from the last result message in
\* stream order; earlier result messages leave no trace.
C1_LastResultWins ==
    (Completed /\ ResponseWritten /\ HasResult(seen)) =>
        stdout = << JsonDumps([output  |-> TextOf(LastResult(seen).result),
                               success |-> LastResult(seen).subtype = "success"]) >>

C1_Witness ==
    /\ Completed /\ ResponseWritten
    /\ \E i, j \in ResultIdx(seen) :
         /\ i < j
         /\ \A k \in ResultIdx(seen) : k <= j
         /\ seen[i].subtype = "success" /\ seen[i].result = <<"done">>
         /\ seen[j].subtype # "success" /\ seen[j].result = <<>>
    /\ stdout = << "{\"output\": \"\", \"success\": false}" >>

\* C2: the written response has success = true exactly when the stream
\* completed without raising, a result message was observed and the last one's
\* subtype is the string "success".
C2_SuccessIff ==
    ResponseWritten =>
        /\ PrintedFromResult
        /\ result[1].success <=>
             (Completed /\ HasResult(seen) /\ LastResult(seen).subtype = "success")

C2_Witness ==
    /\ Completed
    /\ HasResult(seen)
    /\ LastResult(seen).subtype = "success"
    /\ LastResult(seen).result = <<"done">>
    /\ stdout = << "{\"output\": \"done\", \"success\": true}" >>

\* C3: after a stream that completes, output is the last result message's
\* text, or "" when that text is null or no result message was observed; a run
\* without a result message and a run whose last result is a non-success with
\* null text both print {"output": "", "success": false}.
C3_OutputOrEmpty ==
    (Completed /\ ResponseWritten) =>
        /\ PrintedFromResult
        /\ result[1].output =
             (IF HasResult(seen) THEN TextOf(LastResult(seen).result) ELSE "")
        /\ ( \/ ~HasResult(seen)
             \/ /\ LastResult(seen).subtype # "success"
                /\ LastResult(seen).result = <<>> )
           => stdout = << "{\"output\": \"\", \"success\": false}" >>

C3_Witness ==
    /\ Completed /\ ResponseWritten
    /\ Len(seen) >= 2
    /\ seen[1].type = "ResultMessage" /\ seen[1].result = <<"done">>
    /\ LastResult(seen).subtype = "error_max_turns"
    /\ LastResult(seen).result = <<>>
    /\ result[1].output = ""

\* C4: when an exception was raised in the try block, a written response is
\* exactly {output: "", success: false, error: str(e)}, whatever had been
\* captured from the stream before.
C4_ErrorResponse ==
    (exc # <<>> /\ ResponseWritten) =>
        /\ stdout = << JsonDumps([output |-> "", success |-> FALSE,
                                  error |-> ErrText(exc[1])]) >>
        /\ exc[1].args = <<"connection lost">> =>
             stdout = << "{\"output\": \"\", \"success\": false, \"error\": \"connection lost\"}" >>

C4_Witness ==
    /\ exc # <<>> /\ ResponseWritten
    /\ seen # <<>>
    /\ output = "done" /\ success = TRUE
    /\ exc[1].args = <<"connection lost">>

\* C5 (as stated): every run that has ended wrote exactly one response, written
\* only after the stream ended and never while messages are consumed.
C5_ExactlyOneInEveryRun ==
    /\ Terminated => Len(stdout) = 1
    /\ ResponseWritten => ext \in {"completed", "raised"}
    /\ pc = "awaiting" => stdout = <<>>

\* C5 (amended): at most one response is ever written, only after the external
\* call has ended and never while messages are consumed; a run that exits
\* normally wrote exactly one, a run that ends abnormally wrote none.
C5_AtMostOne ==
    /\ Len(stdout) <= 1
    /\ ResponseWritten => ext \in {"completed", "raised"}
    /\ pc \in {"not_started", "parsed", "configured", "awaiting", "collected"}
         => stdout = <<>>
    /\ pc = "done" => Len(stdout) = 1
    /\ pc = "crashed" => stdout = <<>>

C5_Witness ==
    /\ pc = "done"
    /\ Len(stdout) = 1
    /\ Len(seen) >= 2
    /\ HasResult(seen)

\* C6 (as stated): no failure of the external call, of any kind, ends the
\* process without a response.
C6_EveryFailureCaught ==
    exc # <<>> => (pc # "crashed" /\ uncaught = <<>>)

\* C6 (amended): a failure of the external call that is an instance of
\* Exception never ends the process abnormally; the process goes on to write a
\* response carrying an error field and exits with status 0.
C6_ExceptionsCaught ==
    /\ [](exc # <<>> /\ exc[1].cls \in ExceptionClasses =>
            /\ pc # "crashed" /\ uncaught = <<>>
            /\ exitCode \in {<<>>, <<0>>}
            /\ ResponseWritten => PrintedFromResult /\ "error" \in DOMAIN result[1])
    /\ (exc # <<>> /\ exc[1].cls \in ExceptionClasses)
         ~> (pc = "done" /\ exitCode = <<0>> /\ Len(stdout) = 1)

C6_Witness ==
    /\ exc # <<>> /\ exc[1].cls \in ExceptionClasses
    /\ pc = "done" /\ exitCode = <<0>>
    /\ Len(stdout) = 1
    /\ "error" \in DOMAIN result[1]

\* C7: a standard input that is not a JSON object holding prompt and
\* context.workingDirectory ends the process abnormally: nothing is printed,
\* the except clause is not entered, no options are built and query is never
\* called; and the SDK is touched only after both fields were read.
C7_MalformedInputCrashes ==
    /\ (~WellFormedRequest(stdin) /\ pc # "not_started") =>
          /\ pc = "crashed"
          /\ uncaught # <<>>
          /\ exitCode = <<1>>
          /\ stdout = <<>> /\ result = <<>>
          /\ exc = <<>>
          /\ options = <<>> /\ queryCalls = 0 /\ ext = "idle"
    /\ (options # <<>> \/ queryCalls > 0 \/ ext # "idle") =>
          (prompt # <<>> /\ cwd # <<>>)

C7_Witness ==
    /\ stdin = DObj(Two("prompt", DStr("p"), "context", DObj(EmptyMap)))
    /\ pc = "crashed"
    /\ uncaught = <<"KeyError">>

\* C8: a written response has an error field exactly when an exception was
\* raised in the try block; otherwise it has exactly the fields output and
\* success; a response with an error field has output "" and success false.
C8_ErrorFieldIff ==
    ResponseWritten =>
        /\ PrintedFromResult
        /\ "error" \in DOMAIN result[1] <=> exc # <<>>
        /\ exc = <<>> => DOMAIN result[1] = {"output", "success"}
        /\ "error" \in DOMAIN result[1] =>
             (result[1].output = "" /\ result[1].success = FALSE)

C8_Witness ==
    /\ Completed /\ ResponseWritten
    /\ ~HasResult(seen)
    /\ stdout = << "{\"output\": \"\", \"success\": false}" >>

\* C9: a message that is not a result message leaves output and success
\* unchanged, and the response to a completed stream is the response to the
\* same stream with every non-result message removed.
C9_NonResultIgnored ==
    /\ [][(seen' # seen /\ seen'[Len(seen')].type # "ResultMessage")
            => (output' = output /\ success' = success)]_vars
    /\ [](Completed /\ ResponseWritten =>
            LET s == OnlyResults(seen) IN
            stdout = << JsonDumps(
                IF s = <<>> THEN [output |-> "", success |-> FALSE]
                ELSE [output  |-> TextOf(s[Len(s)].result),
                      success |-> s[Len(s)].subtype = "success"]) >>)

C9_Witness ==
    /\ Completed /\ ResponseWritten
    /\ Len(seen) = 3
    /\ seen[1].type = "SystemMessage"
    /\ seen[2].type = "ResultMessage" /\ seen[2].subtype = "success"
    /\ seen[2].result = <<"done">>
    /\ seen[3].type = "SystemMessage"
    /\ output = "done" /\ success

\* C10 (as stated): for a well-formed request, once the external call has
\* ended (completed or raised) the process ends with a response written.
C10_ResponseIffStreamEnds ==
    (WellFormedRequest(stdin) /\ Terminated) =>
        (ResponseWritten <=> ext \in {"completed", "raised"})

\* C10 (amended): for a well-formed request a response is written only after
\* the external call completed or raised an Exception, and whenever it does so
\* the response is eventually written and the process exits; the process leaves
\* the awaiting state only when the stream ends or raises, writes nothing while
\* awaiting, and calls query at most once.
C10_TerminatesIffStreamEnds ==
    /\ [](ResponseWritten => EndedRecoverably)
    /\ [](pc = "awaiting" => (stdout = <<>> /\ exitCode = <<>> /\ ext = "open"))
    /\ [][pc = "awaiting" => (pc' = "awaiting" \/ ext' \in {"completed", "raised"})]_vars
    /\ [](queryCalls <= 1)
    /\ EndedRecoverably ~> (pc = "done" /\ Len(stdout) = 1)

C10_Witness ==
    /\ WellFormedRequest(stdin)
    /\ pc = "done"
    /\ Completed
    /\ Len(seen) >= 2
    /\ Len(stdout) = 1
    /\ queryCalls = 1

====
